---- MODULE Spec2Model ----
(***************************************************************************)
(* Model of analysis/fetch_and_process_players.py: one run of main().      *)
(*                                                                         *)
(* Real numbers are exact.  A number is a quotient n/d of two polynomials  *)
(* in eps (the 1e-9 of norm) with integer coefficients, d > 0.  A          *)
(* polynomial is the sequence of its coefficients, lowest power first,     *)
(* without trailing zeros.  Since every coefficient the model builds is    *)
(* far below 1/eps - 1, the sign of a polynomial at eps = 1e-9 is the sign *)
(* of its first non-zero coefficient.                                      *)
(***************************************************************************)
EXTENDS Integers, Sequences, FiniteSets, TLC

VARIABLES pc, failure, dirExists, provider, twin, fetches,
          df, q_low, q_high, rawFile, procFile

vars == <<pc, failure, dirExists, provider, twin, fetches,
          df, q_low, q_high, rawFile, procFile>>

\* ---------------------------------------------------------------- bounds
MaxRows == 3

\* ------------------------------------------------------ program constants
MinGames == 15
avg_height_m == 2
avg_weight_kg == 100
EpsInv == 1000000000

\* ------------------------------------------------------------ polynomials
Coef(p, i) == IF i >= 1 /\ i <= Len(p) THEN p[i] ELSE 0

RECURSIVE PTrim(_)
PTrim(p) == IF p = <<>> THEN <<>>
            ELSE IF p[Len(p)] = 0 THEN PTrim(SubSeq(p, 1, Len(p) - 1))
            ELSE p

MaxOf(a, b) == IF a >= b THEN a ELSE b

\* the sequence s as an explicit tuple
Tuple(s) == s \o <<>>

PAdd(p, q) ==
    PTrim(Tuple([i \in 1..MaxOf(Len(p), Len(q)) |-> Coef(p, i) + Coef(q, i)]))

PScale(k, p) == PTrim(Tuple([i \in 1..Len(p) |-> k * p[i]]))

PSub(p, q) == PAdd(p, PScale(-1, q))

RECURSIVE ConvSum(_, _, _, _)
ConvSum(p, q, k, i) ==
    IF i > Len(p) THEN 0
    ELSE p[i] * Coef(q, k + 1 - i) + ConvSum(p, q, k, i + 1)

PMul(p, q) == IF p = <<>> \/ q = <<>> THEN <<>>
              ELSE PTrim(Tuple([k \in 1..(Len(p) + Len(q) - 1) |->
                                   ConvSum(p, q, k, 1)]))

RECURSIVE PSignFrom(_, _)
PSignFrom(p, i) == IF i > Len(p) THEN 0
                   ELSE IF p[i] > 0 THEN 1
                   ELSE IF p[i] < 0 THEN -1
                   ELSE PSignFrom(p, i + 1)

PSign(p) == PSignFrom(p, 1)

PEps == <<0, 1>>

\* TRUE when the first-non-zero-coefficient rule is exact for p at eps = 1/EpsInv
Small(p) == \A i \in 1..Len(p) : p[i] < EpsInv - 1 /\ -p[i] < EpsInv - 1

\* ------------------------------------------------------------------ cells
Num(p, q) == [t |-> "num", s |-> "", n |-> p, d |-> q]
Whole(k) == Num(PTrim(<<k>>), <<1>>)
Frac(a, b) == Num(PTrim(<<a>>), <<b>>)
Str(x) == [t |-> "str", s |-> x, n |-> <<>>, d |-> <<>>]
NaN == [t |-> "nan", s |-> "", n |-> <<>>, d |-> <<>>]

IsNum(c) == c.t = "num"
IsNA(c) == c.t = "nan"

\* k with k * p = q, k a positive integer, or 0 when there is none
RatioAt(p, q, k) == IF k >= 1 /\ PScale(k, p) = q THEN k ELSE 0

Ratio(p, q) ==
    IF p = <<>> \/ Len(p) # Len(q) THEN 0
    ELSE RatioAt(p, q, q[Len(p)] \div p[Len(p)])

\* the numerators of a and b over a common denominator: <<na, nb, d>>
UnifyBy(a, b, ka, kb) ==
    IF ka # 0 THEN <<PScale(ka, a.n), b.n, b.d>>
    ELSE IF kb # 0 THEN <<a.n, PScale(kb, b.n), a.d>>
    ELSE <<PMul(a.n, b.d), PMul(b.n, a.d), PMul(a.d, b.d)>>

Unify(a, b) ==
    IF a.d = b.d THEN <<a.n, b.n, a.d>>
    ELSE UnifyBy(a, b, Ratio(a.d, b.d), Ratio(b.d, a.d))

AddU(u) == Num(PAdd(u[1], u[2]), u[3])
SubU(u) == Num(PSub(u[1], u[2]), u[3])
DivU(u) == Num(u[1], u[2])
SignU(u) == PSign(PSub(u[1], u[2]))

Add(a, b) == IF IsNA(a) \/ IsNA(b) THEN NaN ELSE AddU(Unify(a, b))

Sub(a, b) == IF IsNA(a) \/ IsNA(b) THEN NaN ELSE SubU(Unify(a, b))

Mul(a, b) == IF IsNA(a) \/ IsNA(b) THEN NaN
             ELSE Num(PMul(a.n, b.n), PMul(a.d, b.d))

Neg(a) == IF IsNA(a) THEN NaN ELSE Num(PScale(-1, a.n), a.d)

\* a / b for b > 0; 0/0 and x/0 do not arise below because of eps
Div(a, b) == IF IsNA(a) \/ IsNA(b) THEN NaN ELSE DivU(Unify(a, b))

\* comparisons are FALSE when either side is NaN, as for floats
Le(a, b) == IsNum(a) /\ IsNum(b) /\ SignU(Unify(a, b)) <= 0
Ge(a, b) == Le(b, a)
Lt(a, b) == IsNum(a) /\ IsNum(b) /\ SignU(Unify(a, b)) < 0
Same(a, b) == Le(a, b) /\ Le(b, a)

Zero == Whole(0)
One == Whole(1)
Eps == Num(PEps, <<1>>)

\* ----------------------------------------------------------------- series
\* A Series is a sequence of cells; a DataFrame is [cols, rows] where cols
\* is the ordered list of column names and each row maps a name to a cell.
Smaller(a, b) == IF Le(a, b) THEN a ELSE b
Larger(a, b) == IF Ge(a, b) THEN a ELSE b

RECURSIVE SeriesMin(_)
SeriesMin(s) ==
    IF s = <<>> THEN NaN
    ELSE IF Len(s) = 1 THEN s[1]
    ELSE Smaller(s[1], SeriesMin(Tail(s)))

RECURSIVE SeriesMax(_)
SeriesMax(s) ==
    IF s = <<>> THEN NaN
    ELSE IF Len(s) = 1 THEN s[1]
    ELSE Larger(s[1], SeriesMax(Tail(s)))

\* line 14: (series - series.min()) / (series.max() - series.min() + 1e-9)
\* mutant: the minimum is not subtracted
RescaledUnshifted(series, mn, width) ==
    Tuple([i \in 1..Len(series) |-> Div(series[i], width)])

Rescaled(series, mn, width) ==
    Tuple([i \in 1..Len(series) |-> Div(Sub(series[i], mn), width)])

\* mutant: eps subtracted from the width instead of added
WidthMinusEps(mn, mx) == Sub(Sub(mx, mn), Eps)

Width(mn, mx) == Add(Sub(mx, mn), Eps)

norm(series) ==
    Rescaled(series, SeriesMin(series), Width(SeriesMin(series), SeriesMax(series)))

RECURSIVE Insert(_, _)
Insert(x, s) ==
    IF s = <<>> THEN <<x>>
    ELSE IF Le(x, s[1]) THEN <<x>> \o s
    ELSE <<s[1]>> \o Insert(x, Tail(s))

RECURSIVE SortValues(_)
SortValues(s) == IF s = <<>> THEN <<>> ELSE Insert(s[1], SortValues(Tail(s)))

\* Series.quantile(qn/qd), interpolation "linear"
\* the value at position h/qd (counted from 0) of the sorted values x
Interpolated(x, h, qd) ==
    IF h % qd = 0 THEN x[h \div qd + 1]
    ELSE Add(x[h \div qd + 1],
             Mul(Frac(h % qd, qd), Sub(x[h \div qd + 2], x[h \div qd + 1])))

quantile(series, qn, qd) ==
    IF series = <<>> THEN NaN
    ELSE Interpolated(SortValues(series), (Len(series) - 1) * qn, qd)

Column(d, c) == Tuple([i \in 1..Len(d.rows) |-> d.rows[i][c]])

Names(cs) == {cs[j] : j \in 1..Len(cs)}

\* rows with the cells of s as column c
RECURSIVE WithCells(_, _, _)
WithCells(rows, c, s) ==
    IF rows = <<>> THEN <<>>
    ELSE <<(c :> s[1]) @@ rows[1]>> \o WithCells(Tail(rows), c, Tail(s))

SetColumn(d, c, s) ==
    [cols |-> IF c \in Names(d.cols) THEN d.cols ELSE Append(d.cols, c),
     rows |-> WithCells(d.rows, c, s)]

RECURSIVE SelectRows(_, _)
SelectRows(rows, keep) ==
    IF rows = <<>> THEN <<>>
    ELSE IF keep[1] THEN <<rows[1]>> \o SelectRows(Tail(rows), Tail(keep))
    ELSE SelectRows(Tail(rows), Tail(keep))

\* ------------------------------------------------------ the steps of main
cols == <<"PLAYER_NAME", "GP", "PTS", "REB", "AST", "TOV", "FG_PCT", "FG3_PCT">>

NumericCols == <<"PTS", "REB", "AST", "TOV", "FG_PCT", "FG3_PCT">>

OutCols == <<"player_name", "height_m", "weight_kg", "scoring", "playmaking",
             "discipline", "luck_factor", "tier">>

\* line 50: df[cols] raises KeyError when a column is absent
HasColumns(d) == Names(cols) \subseteq Names(d.cols)

Projected(d) ==
    [cols |-> cols,
     rows |-> Tuple([i \in 1..Len(d.rows) |->
                    [PLAYER_NAME |-> d.rows[i]["PLAYER_NAME"],
                     GP |-> d.rows[i]["GP"],
                     PTS |-> d.rows[i]["PTS"], REB |-> d.rows[i]["REB"],
                     AST |-> d.rows[i]["AST"], TOV |-> d.rows[i]["TOV"],
                     FG_PCT |-> d.rows[i]["FG_PCT"],
                     FG3_PCT |-> d.rows[i]["FG3_PCT"]]])]

\* line 53: comparing a str with 15 raises TypeError
Comparable(d) == \A i \in 1..Len(d.rows) : d.rows[i]["GP"].t # "str"

\* mutant: GP > 15 instead of GP >= 15
VolumeFilteredStrict(d) ==
    [cols |-> d.cols,
     rows |-> SelectRows(d.rows,
                 Tuple([i \in 1..Len(d.rows) |-> Lt(Whole(MinGames), d.rows[i]["GP"])]))]

VolumeFiltered(d) ==
    [cols |-> d.cols,
     rows |-> SelectRows(d.rows,
                 Tuple([i \in 1..Len(d.rows) |-> Ge(d.rows[i]["GP"], Whole(MinGames))]))]

\* the text of the numbers the model's tables hold as strings
Numeral == [x \in {"0", "1", "2", "3"} |->
              CASE x = "0" -> 0 [] x = "1" -> 1 [] x = "2" -> 2 [] x = "3" -> 3]

\* line 57: pd.to_numeric(errors="coerce") of one cell
to_numeric(c) ==
    IF c.t = "num" THEN c
    ELSE IF c.t = "str" /\ c.s \in DOMAIN Numeral THEN Whole(Numeral[c.s])
    ELSE NaN

\* lines 56-57: the six columns of the loop
Coerced(d) ==
    [cols |-> d.cols,
     rows |-> Tuple([i \in 1..Len(d.rows) |->
                    [d.rows[i] EXCEPT !["PTS"] = to_numeric(@),
                                      !["REB"] = to_numeric(@),
                                      !["AST"] = to_numeric(@),
                                      !["TOV"] = to_numeric(@),
                                      !["FG_PCT"] = to_numeric(@),
                                      !["FG3_PCT"] = to_numeric(@)]])]

\* line 59: dropna() drops a row with a missing value in any column
dropna(d) ==
    [cols |-> d.cols,
     rows |-> SelectRows(d.rows,
                 Tuple([i \in 1..Len(d.rows) |->
                          \A k \in DOMAIN d.rows[i] : ~IsNA(d.rows[i][k])]))]

\* mutant: the three-point percentage instead of the field-goal percentage
ScoringRawThrees(r) == Add(r["PTS"], Mul(Whole(5), r["FG3_PCT"]))

ScoringRaw(r) == Add(r["PTS"], Mul(Whole(5), r["FG_PCT"]))
PlaymakingRaw(r) == Sub(r["AST"], Mul(Frac(1, 2), r["TOV"]))
DisciplineRaw(r) == Neg(r["TOV"])

\* the three column expressions that norm is given at lines 62-64
ScoringInput(d) == Tuple([i \in 1..Len(d.rows) |-> ScoringRaw(d.rows[i])])
PlaymakingInput(d) == Tuple([i \in 1..Len(d.rows) |-> PlaymakingRaw(d.rows[i])])
DisciplineInput(d) == Tuple([i \in 1..Len(d.rows) |-> DisciplineRaw(d.rows[i])])

ImpactRaw(r) == Add(Add(Mul(Frac(5, 10), r["scoring"]),
                        Mul(Frac(3, 10), r["playmaking"])),
                    Mul(Frac(2, 10), r["discipline"]))

\* lines 62-64
WithSkills(d) ==
    SetColumn(SetColumn(SetColumn(d, "scoring", norm(ScoringInput(d))),
                        "playmaking", norm(PlaymakingInput(d))),
              "discipline", norm(DisciplineInput(d)))

\* lines 66-71
WithImpact(d) ==
    SetColumn(d, "impact_raw",
              Tuple([i \in 1..Len(d.rows) |-> ImpactRaw(d.rows[i])]))

WithLuck(d) == SetColumn(d, "luck_factor", norm(Column(d, "impact_raw")))

WithAttributes(d) == WithLuck(WithImpact(WithSkills(d)))

\* mutant: a star only strictly above the 80th percentile
tier_row_strict(row, lo, hi) ==
    IF Le(row["impact_raw"], lo) THEN Str("bust")
    ELSE IF Lt(hi, row["impact_raw"]) THEN Str("star")
    ELSE Str("role_player")

\* mutant: the star test before the bust test
tier_row_star_first(row, lo, hi) ==
    IF Ge(row["impact_raw"], hi) THEN Str("star")
    ELSE IF Le(row["impact_raw"], lo) THEN Str("bust")
    ELSE Str("role_player")

\* lines 77-82
tier_row(row, lo, hi) ==
    IF Le(row["impact_raw"], lo) THEN Str("bust")
    ELSE IF Ge(row["impact_raw"], hi) THEN Str("star")
    ELSE Str("role_player")

\* mutant: apply on a frame without rows returns a frame, and the assignment
\* of a frame to the single column tier raises
ApplyTiersFrameOnEmpty(d, lo, hi) ==
    [ok |-> d.rows # <<>>,
     col |-> Tuple([i \in 1..Len(d.rows) |-> tier_row(d.rows[i], lo, hi)])]

\* line 84: df.apply(tier_row, axis=1); on a frame without rows apply calls
\* the function once on a row of NaN, sees a scalar, and returns an empty Series
ApplyTiers(d, lo, hi) ==
    [ok |-> TRUE,
     col |-> Tuple([i \in 1..Len(d.rows) |-> tier_row(d.rows[i], lo, hi)])]

\* lines 87-90
WithDefaults(d) ==
    SetColumn(SetColumn(d, "height_m",
                        Tuple([i \in 1..Len(d.rows) |-> Whole(avg_height_m)])),
              "weight_kg",
              Tuple([i \in 1..Len(d.rows) |-> Whole(avg_weight_kg)]))

\* lines 92-103: select the eight output columns, rename PLAYER_NAME
Selected(d) ==
    [cols |-> OutCols,
     rows |-> Tuple([i \in 1..Len(d.rows) |->
                             [player_name |-> d.rows[i]["PLAYER_NAME"],
                              height_m |-> d.rows[i]["height_m"],
                              weight_kg |-> d.rows[i]["weight_kg"],
                              scoring |-> d.rows[i]["scoring"],
                              playmaking |-> d.rows[i]["playmaking"],
                              discipline |-> d.rows[i]["discipline"],
                              luck_factor |-> d.rows[i]["luck_factor"],
                              tier |-> d.rows[i]["tier"]]])]

\* to_csv(index=False): the header, then each row's fields in column order;
\* a missing value is written as the empty field
CsvField(c) == IF IsNA(c) THEN Str("") ELSE c

to_csv(d) ==
    [header |-> d.cols,
     rows |-> Tuple([i \in 1..Len(d.rows) |->
                 Tuple([j \in 1..Len(d.cols) |-> CsvField(d.rows[i][d.cols[j]])])])]

\* the whole transformation of a fetched table, lines 50-103
Filtered(t) == dropna(Coerced(VolumeFiltered(Projected(t))))

Tiered(d) ==
    SetColumn(d, "tier", ApplyTiers(d, quantile(Column(d, "impact_raw"), 2, 10),
                                    quantile(Column(d, "impact_raw"), 8, 10)).col)

Processed(t) == Selected(WithDefaults(Tiered(WithAttributes(Filtered(t)))))

\* ------------------------------------------------- the provider's tables
ProviderCols == <<"PLAYER_NAME", "TEAM_ABBREVIATION", "GP", "PTS", "REB",
                  "AST", "TOV", "FG_PCT", "FG3_PCT">>

PlayerRow(name, gp, pts, reb, ast, tov, fg, fg3) ==
    [PLAYER_NAME |-> name, TEAM_ABBREVIATION |-> Str("BOS"), GP |-> gp,
     PTS |-> pts, REB |-> reb, AST |-> ast, TOV |-> tov, FG_PCT |-> fg,
     FG3_PCT |-> fg3]

\* well-formed rows with different statistics
StatRows ==
    {PlayerRow(Str("p"), Whole(MinGames), Whole(pts), Whole(1), Whole(ast),
               Whole(tov), Whole(fg), Whole(0)) :
        pts \in {0, 2}, ast \in {0, 1}, tov \in {0, 1}, fg \in {1}}

\* rows whose rebounds and three-point percentage will be varied
TwinRows ==
    {PlayerRow(Str("p"), Whole(MinGames), Whole(pts), Whole(1), Whole(1),
               Whole(tov), Whole(1), Whole(0)) :
        pts \in {0, 2}, tov \in {0, 1}}
    \cup {PlayerRow(Str("p"), Whole(MinGames), Whole(1), Whole(1), Whole(1),
                     Whole(1), Whole(1), Str("n/a"))}

BaseRow == PlayerRow(Str("q"), Whole(20), Whole(1), Whole(1), Whole(1),
                     Whole(1), Whole(1), Whole(1))

\* the base row with one cell replaced
DefectRows ==
    {BaseRow,
     [BaseRow EXCEPT !["FG_PCT"] = Whole(0)],
     [BaseRow EXCEPT !["PLAYER_NAME"] = NaN],
     [BaseRow EXCEPT !["GP"] = Whole(MinGames - 1)],
     [BaseRow EXCEPT !["GP"] = NaN],
     [BaseRow EXCEPT !["PTS"] = NaN],
     [BaseRow EXCEPT !["PTS"] = Str("3")]}
    \cup {[BaseRow EXCEPT ![k] = Str("n/a")] : k \in Names(NumericCols)}

SeqsUpTo(S, n) == UNION {[1..m -> S] : m \in 0..n}

Frame(cs, rs) == [cols |-> cs, rows |-> rs]

\* tables main cannot process: a column is absent, or GP holds text
BrokenTables ==
    {Frame(SelectSeq(ProviderCols, LAMBDA c : c # "FG3_PCT"),
           <<[PLAYER_NAME |-> Str("q"), TEAM_ABBREVIATION |-> Str("BOS"),
              GP |-> Whole(20), PTS |-> Whole(1), REB |-> Whole(1),
              AST |-> Whole(1), TOV |-> Whole(1), FG_PCT |-> Whole(1)]>>),
     Frame(ProviderCols, <<[BaseRow EXCEPT !["GP"] = Str("20")]>>)}

\* ------------------------------------------------------------- the state
NoFile == [written |-> FALSE, header |-> <<>>, rows |-> <<>>]
Written(csv) == [written |-> TRUE, header |-> csv.header, rows |-> csv.rows]
NoFrame == Frame(<<>>, <<>>)

\* a cell that pd.to_numeric turns into a number
IsNumeric(c) == c.t = "num" \/ (c.t = "str" /\ c.s \in DOMAIN Numeral)

\* the row with other numbers, one of them as text, for REB and FG3_PCT
Varied(r) ==
    [r EXCEPT !["REB"] = IF IsNumeric(@) THEN Whole(3) ELSE @,
              !["FG3_PCT"] = IF IsNumeric(@) THEN Str("1") ELSE @]

\* the tables that differ from t at most in the numbers of REB and FG3_PCT
TwinsOf(t) ==
    IF ~HasColumns(t) THEN {t}
    ELSE {Frame(t.cols, Tuple([i \in 1..Len(t.rows) |->
                                 IF i \in m THEN Varied(t.rows[i]) ELSE t.rows[i]])) :
             m \in SUBSET (1..Len(t.rows))}

\* main is entered: nothing fetched, nothing written by this run
Entry ==
    /\ pc = "mkdir"
    /\ failure = "none"
    /\ dirExists = FALSE
    /\ fetches = 0
    /\ df = NoFrame
    /\ q_low = NaN
    /\ q_high = NaN
    /\ rawFile = NoFile
    /\ procFile = NoFile

Init ==
    /\ Entry
    /\ \/ \E rs \in SeqsUpTo(StatRows, MaxRows) : provider = Frame(ProviderCols, rs)
       \/ \E rs \in SeqsUpTo(DefectRows, MaxRows) : provider = Frame(ProviderCols, rs)
       \/ provider \in BrokenTables
    /\ twin = provider

\* tables of well-formed rows only, beside the tables main cannot process
InitStats ==
    /\ Entry
    /\ \/ \E rs \in SeqsUpTo(StatRows, MaxRows) : provider = Frame(ProviderCols, rs)
       \/ provider \in BrokenTables
    /\ twin = provider

InitTwin ==
    /\ Entry
    /\ \/ \E rs \in SeqsUpTo(TwinRows, MaxRows) : provider = Frame(ProviderCols, rs)
       \/ provider \in BrokenTables
    /\ twin \in TwinsOf(provider)

Raise(what) == /\ pc' = "failed"
               /\ failure' = what

\* line 25
Mkdir ==
    /\ pc = "mkdir"
    /\ dirExists' = TRUE
    /\ pc' = "fetch"
    /\ UNCHANGED <<failure, provider, twin, fetches, df, q_low, q_high, rawFile, procFile>>

MkdirFail ==
    /\ pc = "mkdir"
    /\ Raise("mkdir")
    /\ UNCHANGED <<dirExists, provider, twin, fetches, df, q_low, q_high, rawFile, procFile>>

\* lines 28-32
Fetch ==
    /\ pc = "fetch"
    /\ fetches' = fetches + 1
    /\ df' = provider
    /\ pc' = "save_raw"
    /\ UNCHANGED <<failure, dirExists, provider, twin, q_low, q_high, rawFile, procFile>>

\* mutant: the failure of the fetch is swallowed and main goes on with a
\* table without rows
FetchFailSwallowed ==
    /\ pc = "fetch"
    /\ fetches' = fetches + 1
    /\ failure' = "fetch"
    /\ df' = Frame(cols, <<>>)
    /\ pc' = "save_raw"
    /\ UNCHANGED <<dirExists, provider, twin, q_low, q_high, rawFile, procFile>>

FetchFail ==
    /\ pc = "fetch"
    /\ fetches' = fetches + 1
    /\ Raise("fetch")
    /\ UNCHANGED <<dirExists, provider, twin, df, q_low, q_high, rawFile, procFile>>

\* mutant: the raw file is dumped after the volume filter
RawDumpFiltered(d) ==
    to_csv(IF "GP" \in Names(d.cols) /\ Comparable(d) THEN VolumeFiltered(d) ELSE d)

\* lines 35-36
RawDump(d) == to_csv(d)

\* mutant: the raw file is not written at this point
SaveRawSkipped ==
    /\ pc = "save_raw"
    /\ pc' = "project"
    /\ UNCHANGED <<failure, dirExists, provider, twin, fetches, df, q_low, q_high,
                   rawFile, procFile>>

SaveRaw ==
    /\ pc = "save_raw"
    /\ rawFile' = Written(RawDump(df))
    /\ pc' = "project"
    /\ UNCHANGED <<failure, dirExists, provider, twin, fetches, df, q_low, q_high, procFile>>

SaveRawFail ==
    /\ pc = "save_raw"
    /\ Raise("raw_write")
    /\ UNCHANGED <<dirExists, provider, twin, fetches, df, q_low, q_high, rawFile, procFile>>

\* line 50
Project ==
    /\ pc = "project"
    /\ IF HasColumns(df)
       THEN /\ df' = Projected(df)
            /\ pc' = "filter"
            /\ UNCHANGED failure
       ELSE /\ Raise("missing_column")
            /\ UNCHANGED df
    /\ UNCHANGED <<dirExists, provider, twin, fetches, q_low, q_high, rawFile, procFile>>

\* line 53
VolumeFilter ==
    /\ pc = "filter"
    /\ IF Comparable(df)
       THEN /\ df' = VolumeFiltered(df)
            /\ pc' = "coerce"
            /\ UNCHANGED failure
       ELSE /\ Raise("transform")
            /\ UNCHANGED df
    /\ UNCHANGED <<dirExists, provider, twin, fetches, q_low, q_high, rawFile, procFile>>

\* lines 56-59
Coerce ==
    /\ pc = "coerce"
    /\ df' = dropna(Coerced(df))
    /\ pc' = "attributes"
    /\ UNCHANGED <<failure, dirExists, provider, twin, fetches, q_low, q_high, rawFile, procFile>>

\* lines 62-64
Skills ==
    /\ pc = "attributes"
    /\ df' = WithSkills(df)
    /\ pc' = "impact"
    /\ UNCHANGED <<failure, dirExists, provider, twin, fetches, q_low, q_high, rawFile, procFile>>

\* lines 66-70
Impact ==
    /\ pc = "impact"
    /\ df' = WithImpact(df)
    /\ pc' = "luck"
    /\ UNCHANGED <<failure, dirExists, provider, twin, fetches, q_low, q_high, rawFile, procFile>>

\* line 71
Luck ==
    /\ pc = "luck"
    /\ df' = WithLuck(df)
    /\ pc' = "quantiles"
    /\ UNCHANGED <<failure, dirExists, provider, twin, fetches, q_low, q_high, rawFile, procFile>>

\* lines 74-75
Quantiles ==
    /\ pc = "quantiles"
    /\ q_low' = quantile(Column(df, "impact_raw"), 2, 10)
    /\ q_high' = quantile(Column(df, "impact_raw"), 8, 10)
    /\ pc' = "tiers"
    /\ UNCHANGED <<failure, dirExists, provider, twin, fetches, df, rawFile, procFile>>

\* lines 74-84
AssignTiers ==
    /\ pc = "tiers"
    /\ IF ApplyTiers(df, q_low, q_high).ok
       THEN /\ df' = SetColumn(df, "tier", ApplyTiers(df, q_low, q_high).col)
            /\ pc' = "select"
            /\ UNCHANGED failure
       ELSE /\ Raise("transform")
            /\ UNCHANGED df
    /\ UNCHANGED <<dirExists, provider, twin, fetches, q_low, q_high, rawFile, procFile>>

\* lines 87-103
Select ==
    /\ pc = "select"
    /\ df' = Selected(WithDefaults(df))
    /\ pc' = "save_processed"
    /\ UNCHANGED <<failure, dirExists, provider, twin, fetches, q_low, q_high, rawFile, procFile>>

\* lines 105-106
SaveProcessed ==
    /\ pc = "save_processed"
    /\ procFile' = Written(to_csv(df))
    /\ pc' = "done"
    /\ UNCHANGED <<failure, dirExists, provider, twin, fetches, df, q_low, q_high, rawFile>>

SaveProcessedFail ==
    /\ pc = "save_processed"
    /\ Raise("processed_write")
    /\ UNCHANGED <<dirExists, provider, twin, fetches, df, q_low, q_high, rawFile, procFile>>

Next ==
    \/ Mkdir
    \/ MkdirFail
    \/ Fetch
    \/ FetchFail
    \/ SaveRaw
    \/ SaveRawFail
    \/ Project
    \/ VolumeFilter
    \/ Coerce
    \/ Skills
    \/ Impact
    \/ Luck
    \/ Quantiles
    \/ AssignTiers
    \/ Select
    \/ SaveProcessed
    \/ SaveProcessedFail

Spec == Init /\ [][Next]_vars

\* the runs on tables whose rows all survive the filter
SpecStats == InitStats /\ [][Next]_vars

\* the same run beside a table that differs only in REB and FG3_PCT
SpecTwin == InitTwin /\ [][Next]_vars

\* ------------------------------------------------------------ properties
Position(header, name) == CHOOSE j \in 1..Len(header) : header[j] = name

\* field `name` of data row i of a written file
Field(file, i, name) == file.rows[i][Position(file.header, name)]

Attributes == {"scoring", "playmaking", "discipline", "luck_factor"}

TierNames == {"bust", "role_player", "star"}

InUnit(c) == Le(Zero, c) /\ Le(c, One)

IsZero(c) == Same(c, Zero)

\* the cells of the frame in the state, and the polynomials they hold
FrameCells == {df.rows[i][k] : i \in 1..Len(df.rows), k \in Names(df.cols)}

CoefficientsSmall ==
    \A c \in FrameCells \cup {q_low, q_high} :
        IsNum(c) => Small(c.n) /\ Small(c.d) /\ PSign(c.d) > 0

\* the stages of main at which df holds the columns named
HasSkills == pc \in {"impact", "luck", "quantiles", "tiers", "select"}
HasLuck == pc \in {"quantiles", "tiers", "select"}
HasTiers == pc = "select"

Rows == 1..Len(df.rows)

\* the rows of the fetched table that reach the attribute computation
Survivors == Filtered(provider).rows

\* C1: every row of the processed output, and of the frame once the column
\* is computed, has scoring, playmaking, discipline and luck_factor in [0,1].
C1_AttributesInUnitInterval ==
    /\ \A i \in 1..Len(procFile.rows) :
          \A a \in Attributes : InUnit(Field(procFile, i, a))
    /\ HasSkills =>
          \A i \in Rows : \A a \in Attributes \ {"luck_factor"} : InUnit(df.rows[i][a])
    /\ HasLuck => \A i \in Rows : InUnit(df.rows[i]["luck_factor"])

\* a processed file in which an attribute is strictly inside (0,1) and the
\* luck factor of some row is not 0
C1_Witness ==
    /\ procFile.written
    /\ \E i \in 1..Len(procFile.rows) :
          /\ Lt(Zero, Field(procFile, i, "scoring"))
          /\ Lt(Field(procFile, i, "scoring"), One)
    /\ \E i \in 1..Len(procFile.rows) : Lt(Zero, Field(procFile, i, "luck_factor"))

\* what the claim takes to decide survival: games played and the six fields
MeetsVolumeAndParses(r) ==
    /\ Ge(r["GP"], Whole(MinGames))
    /\ \A k \in Names(NumericCols) : IsNumeric(r[k])

NamePresent(r) == ~IsNA(r["PLAYER_NAME"])

\* the rows of the fetched table selected by a mask, projected and coerced
Kept(mask) == SelectRows(Coerced(Projected(provider)).rows, mask)

\* the rows that reach the attribute computation, and the rows of the
\* processed file, are the rows the mask selects
SurvivorsAre(mask) ==
    /\ pc = "attributes" => df.rows = Kept(mask)
    /\ pc = "done" =>
          /\ Len(procFile.rows) = Len(Kept(mask))
          /\ \A i \in 1..Len(procFile.rows) :
                Field(procFile, i, "player_name") =
                    CsvField(Kept(mask)[i]["PLAYER_NAME"])

\* C2 as stated: a row is in the processed output exactly when games played
\* is at least 15 and the six numeric fields parse, whatever its name.
C2_Original ==
    SurvivorsAre(Tuple([i \in 1..Len(provider.rows) |->
                          MeetsVolumeAndParses(provider.rows[i])]))

\* C2 amended: a row is in the processed output exactly when games played is
\* at least 15, the six numeric fields parse and the player name is present;
\* the other rows are removed, the kept ones are neither replaced nor reordered.
C2_SurvivorsHaveNameVolumeNumbers ==
    SurvivorsAre(Tuple([i \in 1..Len(provider.rows) |->
                          /\ MeetsVolumeAndParses(provider.rows[i])
                          /\ NamePresent(provider.rows[i])]))

\* a finished run that kept a row, dropped a row for its missing name alone,
\* and dropped a row for its games or for text in a numeric field
C2_Witness ==
    /\ pc = "done"
    /\ Len(procFile.rows) >= 1
    /\ \E i \in 1..Len(provider.rows) :
          MeetsVolumeAndParses(provider.rows[i]) /\ ~NamePresent(provider.rows[i])
    /\ \E i \in 1..Len(provider.rows) : ~MeetsVolumeAndParses(provider.rows[i])

ImpactOf(i) == df.rows[i]["impact_raw"]

TierOf(i) == df.rows[i]["tier"].s

\* C3 as stated: every row at or above the 80th percentile is a star.
C3_Original ==
    HasTiers => \A i \in Rows : Ge(ImpactOf(i), q_high) => TierOf(i) = "star"

\* C3 amended: a row at or above the 80th percentile is a star when it is
\* above the 20th percentile, and a bust when it is at or below the 20th.
C3_StarAboveLowQuantile ==
    HasTiers =>
        \A i \in Rows :
            Ge(ImpactOf(i), q_high) =>
                TierOf(i) = IF Le(ImpactOf(i), q_low) THEN "bust" ELSE "star"

\* a star whose impact equals the 80th percentile, above the 20th
C3_Witness ==
    /\ HasTiers
    /\ \E i \in Rows :
          /\ Same(ImpactOf(i), q_high)
          /\ Lt(q_low, ImpactOf(i))
          /\ TierOf(i) = "star"

\* C4: every row has exactly one of the three tiers; it is bust exactly when
\* its impact is at or below the 20th percentile, role_player exactly when
\* strictly between the two percentiles; the processed file carries the tier.
C4_TierPartition ==
    /\ HasTiers =>
          \A i \in Rows :
              /\ df.rows[i]["tier"].t = "str"
              /\ TierOf(i) \in TierNames
              /\ TierOf(i) = "bust" <=> Le(ImpactOf(i), q_low)
              /\ TierOf(i) = "role_player" <=>
                    (Lt(q_low, ImpactOf(i)) /\ Lt(ImpactOf(i), q_high))
    /\ \A i \in 1..Len(procFile.rows) : Field(procFile, i, "tier").s \in TierNames

\* a batch with a bust, a role player and a star
C4_Witness ==
    /\ HasTiers
    /\ \A t \in TierNames : \E i \in Rows : TierOf(i) = t

\* C5: the raw file, once written, holds the header and every row of the
\* fetched table, also the rows the processed file does not have.
C5_RawIsFetchedTable ==
    rawFile.written =>
        /\ rawFile.header = provider.cols
        /\ Len(rawFile.rows) = Len(provider.rows)
        /\ \A i \in 1..Len(provider.rows) :
              \A j \in 1..Len(provider.cols) :
                  rawFile.rows[i][j] = CsvField(provider.rows[i][provider.cols[j]])

\* a finished run whose raw file has more rows than its processed file
C5_Witness ==
    /\ pc = "done"
    /\ Len(procFile.rows) >= 1
    /\ Len(rawFile.rows) > Len(procFile.rows)

\* C6: after a failed fetch the run has stopped, has written neither file and
\* has called the provider once.
C6_FetchFailureWritesNothing ==
    /\ fetches <= 1
    /\ failure = "fetch" =>
          /\ pc = "failed"
          /\ fetches = 1
          /\ ~rawFile.written
          /\ ~procFile.written

C6_Witness == pc = "failed" /\ failure = "fetch" /\ dirExists

\* a table with the eight columns and numbers for games played
WellFormed(t) == HasColumns(t) /\ Comparable(t)

\* C7: with a table of which no row survives, the run fails only where the
\* file system or the provider fails, and a finished run has written the
\* processed file with the fixed header and no rows.
C7_EmptyBatchCompletes ==
    (pc \in {"failed", "done"} /\ WellFormed(provider) /\ Survivors = <<>>) =>
        /\ pc = "failed" => failure \in {"mkdir", "fetch", "raw_write", "processed_write"}
        /\ pc = "done" => procFile = Written([header |-> OutCols, rows |-> <<>>])

\* a finished run on a table with rows of which none survived
C7_Witness ==
    /\ pc = "done"
    /\ provider.rows # <<>>
    /\ procFile.rows = <<>>
    /\ procFile.header = OutCols

AllSame(s) == \A i, j \in 1..Len(s) : Same(s[i], s[j])

AllZero(s) == \A i \in 1..Len(s) : IsZero(s[i])

\* C8: norm of a column of equal values is 0 everywhere, for each of the four
\* normalised columns; a batch of identical rows has all four attributes 0.
C8_EqualColumnNormalisesToZero ==
    /\ HasSkills =>
          /\ AllSame(ScoringInput(df)) => AllZero(Column(df, "scoring"))
          /\ AllSame(PlaymakingInput(df)) => AllZero(Column(df, "playmaking"))
          /\ AllSame(DisciplineInput(df)) => AllZero(Column(df, "discipline"))
    /\ (HasLuck /\ AllSame(Column(df, "impact_raw"))) =>
          AllZero(Column(df, "luck_factor"))
    /\ (pc = "done" /\ \A i, j \in 1..Len(Survivors) : Survivors[i] = Survivors[j]) =>
          \A i \in 1..Len(procFile.rows) :
              \A a \in Attributes : IsZero(Field(procFile, i, a))

\* a processed file of several identical rows with points and turnovers
C8_Witness ==
    /\ pc = "done"
    /\ Len(procFile.rows) >= 2
    /\ \A i, j \in 1..Len(Survivors) : Survivors[i] = Survivors[j]
    /\ Lt(Zero, Survivors[1]["PTS"])
    /\ Lt(Zero, Survivors[1]["TOV"])

\* C9: the processed file is written only after the raw file, and a failure
\* after the raw write leaves the raw file written and no processed file.
C9_RawBeforeProcessed ==
    /\ procFile.written => rawFile.written
    /\ (pc = "failed" /\ failure \in {"missing_column", "transform", "processed_write"}) =>
          rawFile.written /\ ~procFile.written

\* a run that failed on a missing column or on text in games played
C9_Witness ==
    /\ pc = "failed"
    /\ failure \in {"missing_column", "transform"}
    /\ rawFile.written
    /\ ~procFile.written

\* C10: the processed file is the one the table with other numbers for REB
\* and FG3_PCT yields: one row per survivor, in order, with the two defaults.
C10_ReboundsAndThreesIgnored ==
    pc = "done" =>
        /\ procFile = Written(to_csv(Processed(twin)))
        /\ Len(procFile.rows) = Len(Survivors)
        /\ \A i \in 1..Len(procFile.rows) :
              /\ Field(procFile, i, "player_name") = Survivors[i]["PLAYER_NAME"]
              /\ Field(procFile, i, "height_m") = Whole(avg_height_m)
              /\ Field(procFile, i, "weight_kg") = Whole(avg_weight_kg)

\* a finished run with several distinct rows beside a table whose REB and
\* FG3_PCT differ
C10_Witness ==
    /\ pc = "done"
    /\ twin # provider
    /\ \E i \in 1..Len(twin.rows) : twin.rows[i]["FG3_PCT"] # provider.rows[i]["FG3_PCT"]
    /\ \E i \in 1..Len(procFile.rows) : Lt(Zero, Field(procFile, i, "scoring"))

====
